---------------------------- MODULE Spec2Model ----------------------------
(***************************************************************************)
(* Model of the Sui trading-signal bot: the poll loop of main.py, the      *)
(* signal fusion of src/signals/trading_signals.py, the target calculator  *)
(* of src/analysis/technical_indicators.py and the sentiment-text          *)
(* interpreter of src/ai/deepseek_client.py.                               *)
(*                                                                         *)
(* Floating-point values are modelled as exact rationals extended with the *)
(* IEEE special values NaN, +inf and -inf (numpy float64 division by zero  *)
(* yields them instead of raising).  Rounding of doubles is not modelled.  *)
(***************************************************************************)
EXTENDS Integers, Sequences, FiniteSets, TLC

VARIABLES
    pc,                 \* control position of the process
    config,             \* TradingBot.config, loaded once at startup
    cycle,              \* number of poll cycles started; also the clock reading
    df,                 \* bar series held by the cycle (None when not fetched)
    current_price,      \* BinanceClient.get_current_price() result
    market_stats,       \* BinanceClient.get_24h_stats() result (availability)
    latest_signals,     \* technical flags of the latest bar
    ai_analysis,        \* parsed sentiment verdict
    signal,             \* result of generate_trading_signal / _generate_final_signal
    targets,            \* last call of calculate_trade_targets: arguments and result
    steps,              \* calls made so far in the current cycle, in order
    files,              \* signals directory: file name -> content
    last_wait           \* seconds slept by the most recent time.sleep

vars == <<pc, config, cycle, df, current_price, market_stats, latest_signals,
          ai_analysis, signal, targets, steps, files, last_wait>>

\* Python None, for the values that are otherwise records
None == [none |-> TRUE]

-----------------------------------------------------------------------------
(* Bounds of the model *)

MaxBars == 15
MaxCycles == 2
MaxPrice == 2

-----------------------------------------------------------------------------
(* Extended rational arithmetic standing for Python / numpy floats *)

\* Arithmetic is defined by functions so that an operand is evaluated once.
gcd[a \in Nat, b \in Nat] == IF b = 0 THEN a ELSE gcd[b, a % b]

GCD(a, b) == gcd[a, b]

AbsInt(a) == IF a < 0 THEN -a ELSE a

NaN == [k |-> "nan", n |-> 0, d |-> 1]

PosInf == [k |-> "inf", n |-> 1, d |-> 1]

NegInf == [k |-> "inf", n |-> -1, d |-> 1]

\* the values of a float: finite n/d in lowest terms, NaN, +inf, -inf
Num == [k : {"fin", "nan", "inf"}, n : Int, d : Nat]

norm[n \in Int, d \in Int] ==
    LET s == IF d < 0 THEN -1 ELSE 1
        g == gcd[AbsInt(n), AbsInt(d)]
    IN  [k |-> "fin", n |-> (s * n) \div g, d |-> (s * d) \div g]

Fin(n, d) == norm[n, d]

F(i) == Fin(i, 1)

Sign(x) == IF x.n > 0 THEN 1 ELSE IF x.n < 0 THEN -1 ELSE 0

Inf(s) == IF s > 0 THEN PosInf ELSE NegInf

neg[x \in Num] == IF x.k = "nan" THEN NaN ELSE [x EXCEPT !.n = -x.n]

FNeg(x) == neg[x]

add[x \in Num, y \in Num] ==
    IF x.k = "nan" \/ y.k = "nan" THEN NaN
    ELSE IF x.k = "inf" /\ y.k = "inf" THEN (IF x.n = y.n THEN x ELSE NaN)
    ELSE IF x.k = "inf" THEN x
    ELSE IF y.k = "inf" THEN y
    ELSE Fin(x.n * y.d + y.n * x.d, x.d * y.d)

FAdd(x, y) == add[x, y]

FSub(x, y) == add[x, neg[y]]

mul[x \in Num, y \in Num] ==
    IF x.k = "nan" \/ y.k = "nan" THEN NaN
    ELSE IF x.k = "inf" \/ y.k = "inf"
         THEN (IF Sign(x) * Sign(y) = 0 THEN NaN ELSE Inf(Sign(x) * Sign(y)))
    ELSE Fin(x.n * y.n, x.d * y.d)

FMul(x, y) == mul[x, y]

\* numpy float64 true division: x/0 is +-inf, 0/0 is nan, no exception
div[x \in Num, y \in Num] ==
    IF x.k = "nan" \/ y.k = "nan" THEN NaN
    ELSE IF x.k = "inf" /\ y.k = "inf" THEN NaN
    ELSE IF x.k = "inf" THEN (IF Sign(y) < 0 THEN neg[x] ELSE x)
    ELSE IF y.k = "inf" THEN F(0)
    ELSE IF y.n = 0 THEN (IF x.n = 0 THEN NaN ELSE Inf(Sign(x)))
    ELSE Fin(x.n * y.d, x.d * y.n)

FDiv(x, y) == div[x, y]

abs[x \in Num] == IF x.k = "nan" THEN NaN ELSE [x EXCEPT !.n = AbsInt(x.n)]

FAbs(x) == abs[x]

\* comparisons: every comparison with NaN is False
lt[x \in Num, y \in Num] ==
    /\ x.k # "nan"
    /\ y.k # "nan"
    /\ IF x.k = "inf" \/ y.k = "inf"
       THEN (IF x.k = "inf" /\ y.k = "inf" THEN x.n < y.n
             ELSE IF x.k = "inf" THEN x.n < 0
             ELSE y.n > 0)
       ELSE x.n * y.d < y.n * x.d

FLt(x, y) == lt[x, y]

FGt(x, y) == lt[y, x]

eq[x \in Num, y \in Num] == x.k # "nan" /\ y.k # "nan" /\ x = y

FEq(x, y) == eq[x, y]

le[x \in Num, y \in Num] == lt[x, y] \/ eq[x, y]

FLe(x, y) == le[x, y]

\* Python max(a, b): b only when b > a
max[x \in Num, y \in Num] == IF lt[x, y] THEN y ELSE x

FMax(x, y) == max[x, y]

IsFinite(x) == x.k = "fin"

-----------------------------------------------------------------------------
(* Sentiment text interpreter: src/ai/deepseek_client.py *)

\* A response text is modelled by the set of vocabulary words occurring in it.
bullish_keywords == {"bullish", "upward", "growth", "increase", "higher"}

bearish_keywords == {"bearish", "downward", "decline", "decrease", "lower"}

high_confidence == {"confident", "strong", "clear", "definitely"}

medium_confidence == {"likely", "probable", "possible"}

low_confidence == {"uncertain", "unclear", "might", "maybe"}

\* Python's `word in content` is a substring test: "clear" occurs in "unclear".
Contains(word, content) ==
    \E t \in content : t = word \/ (word = "clear" /\ t = "unclear")

CountIn(words, content) == Cardinality({w \in words : Contains(w, content)})

_extract_sentiment(content) ==
    LET bullish_count == CountIn(bullish_keywords, content)
        bearish_count == CountIn(bearish_keywords, content)
    IN  IF bullish_count > bearish_count THEN "bullish"
        ELSE IF bearish_count > bullish_count THEN "bearish"
        ELSE "neutral"

\* faulty variant: the weighted sum is not divided by the number of markers
ExtractConfidenceNoAverage(content) ==
    LET high_count == CountIn(high_confidence, content)
        medium_count == CountIn(medium_confidence, content)
        low_count == CountIn(low_confidence, content)
        total == high_count + medium_count + low_count
    IN  IF total = 0 THEN Fin(1, 2)
        ELSE FAdd(FAdd(FMul(F(high_count), F(1)),
                       FMul(F(medium_count), Fin(6, 10))),
                  FMul(F(low_count), Fin(2, 10)))

_extract_confidence(content) ==
    LET high_count == CountIn(high_confidence, content)
        medium_count == CountIn(medium_confidence, content)
        low_count == CountIn(low_confidence, content)
        total == high_count + medium_count + low_count
    IN  IF total = 0 THEN Fin(1, 2)
        ELSE FDiv(FAdd(FAdd(FMul(F(high_count), F(1)),
                            FMul(F(medium_count), Fin(6, 10))),
                       FMul(F(low_count), Fin(2, 10))),
                  F(total))

\* key_levels and recommendations are carried through the records unchanged
\* and take no part in any decision; they are left out of the verdict.
_parse_ai_response(content) ==
    [sentiment |-> _extract_sentiment(content),
     confidence_score |-> _extract_confidence(content)]

-----------------------------------------------------------------------------
(* Target calculator: src/analysis/technical_indicators.py *)

WindowSize == 14

MaxOf(S) == CHOOSE x \in S : \A y \in S : y <= x

MinOf(S) == CHOOSE x \in S : \A y \in S : x <= y

\* last value of Series.rolling(w).max(): NaN until w observations exist
RollingMaxLast(bars, w) ==
    IF Len(bars) < w THEN NaN
    ELSE F(MaxOf({bars[i].high : i \in (Len(bars) - w + 1)..Len(bars)}))

RollingMinLast(bars, w) ==
    IF Len(bars) < w THEN NaN
    ELSE F(MinOf({bars[i].low : i \in (Len(bars) - w + 1)..Len(bars)}))

\* bars is a non-empty series (iloc[-1] of an empty series raises IndexError)
calculate_trade_targets(bars, price, trend, rr) ==
    LET atr == FSub(RollingMaxLast(bars, WindowSize), RollingMinLast(bars, WindowSize))
        current_atr == FDiv(atr, F(bars[Len(bars)].close))
        stop_distance == FMul(FMul(price, current_atr), Fin(3, 2))
        stop_loss == IF trend = "long" THEN FSub(price, stop_distance)
                     ELSE FAdd(price, stop_distance)
        take_profit == IF trend = "long"
                       THEN FAdd(price, FMul(stop_distance, rr))
                       ELSE FSub(price, FMul(stop_distance, rr))
    IN  [stop_loss |-> stop_loss,
         take_profit |-> take_profit,
         risk_distance |-> FAbs(FSub(price, stop_loss)),
         reward_distance |-> FAbs(FSub(take_profit, price))]

-----------------------------------------------------------------------------
(* Signal fusion: src/signals/trading_signals.py *)

risk_reward_ratio == F(2)

\* faulty variant: a threshold below the technical weight of 0.5
ThresholdBelowTechnicalWeight == Fin(4, 10)

min_confidence_threshold == Fin(7, 10)

\* faulty variant: the volume caveat is appended before the RSI caveats
GetEntryTimingVolumeFirst(technical_signals, ai) ==
    IF technical_signals.high_volume /\ FGt(ai.confidence_score, Fin(8, 10))
    THEN <<"immediate">>
    ELSE LET conditions ==
                 (IF ~technical_signals.high_volume
                  THEN <<"wait for volume confirmation">> ELSE <<>>)
              \o (IF technical_signals.rsi_oversold
                  THEN <<"wait for RSI recovery">> ELSE <<>>)
              \o (IF technical_signals.rsi_overbought
                  THEN <<"wait for RSI pullback">> ELSE <<>>)
         IN  IF conditions # <<>> THEN <<"delayed: ">> \o conditions
             ELSE <<"immediate">>

_get_entry_timing(technical_signals, ai) ==
    IF technical_signals.high_volume /\ FGt(ai.confidence_score, Fin(8, 10))
    THEN <<"immediate">>
    ELSE LET conditions ==
                 (IF technical_signals.rsi_oversold
                  THEN <<"wait for RSI recovery">> ELSE <<>>)
              \o (IF technical_signals.rsi_overbought
                  THEN <<"wait for RSI pullback">> ELSE <<>>)
              \o (IF ~technical_signals.high_volume
                  THEN <<"wait for volume confirmation">> ELSE <<>>)
         IN  IF conditions # <<>> THEN <<"delayed: ">> \o conditions
             ELSE <<"immediate">>

\* faulty variant: the sentiment weight is added whatever the sentiment is
BullScoreAnySentiment(technical_signals, ai) ==
    LET s1 == IF technical_signals.uptrend THEN FAdd(F(0), Fin(25, 100)) ELSE F(0)
        s2 == IF technical_signals.golden_cross THEN FAdd(s1, Fin(15, 100)) ELSE s1
        s3 == IF technical_signals.rsi_oversold THEN FAdd(s2, Fin(1, 10)) ELSE s2
    IN  FAdd(s3, FMul(Fin(1, 2), ai.confidence_score))

bull_score_of(technical_signals, ai) ==
    LET s1 == IF technical_signals.uptrend THEN FAdd(F(0), Fin(25, 100)) ELSE F(0)
        s2 == IF technical_signals.golden_cross THEN FAdd(s1, Fin(15, 100)) ELSE s1
        s3 == IF technical_signals.rsi_oversold THEN FAdd(s2, Fin(1, 10)) ELSE s2
    IN  IF ai.sentiment = "bullish"
        THEN FAdd(s3, FMul(Fin(1, 2), ai.confidence_score))
        ELSE s3

bear_score_of(technical_signals, ai) ==
    LET s1 == IF technical_signals.downtrend THEN FAdd(F(0), Fin(25, 100)) ELSE F(0)
        s2 == IF technical_signals.death_cross THEN FAdd(s1, Fin(15, 100)) ELSE s1
        s3 == IF technical_signals.rsi_overbought THEN FAdd(s2, Fin(1, 10)) ELSE s2
    IN  IF ai.sentiment # "bullish" /\ ai.sentiment = "bearish"
        THEN FAdd(s3, FMul(Fin(1, 2), ai.confidence_score))
        ELSE s3

\* faulty variant: the threshold comparison is >= instead of >
SignalTypeNonStrict(bull_score, bear_score) ==
    IF FGt(bull_score, bear_score) /\ FLe(min_confidence_threshold, bull_score)
    THEN "buy"
    ELSE IF FGt(bear_score, bull_score) /\ FLe(min_confidence_threshold, bear_score)
    THEN "sell"
    ELSE "None"

signal_type_of(bull_score, bear_score) ==
    IF FGt(bull_score, bear_score) /\ FGt(bull_score, min_confidence_threshold)
    THEN "buy"
    ELSE IF FGt(bear_score, bull_score) /\ FGt(bear_score, min_confidence_threshold)
    THEN "sell"
    ELSE "None"

\* trend argument handed to calculate_trade_targets for a directional decision
trend_of(signal_type) == IF signal_type = "buy" THEN "long" ELSE "short"

NeutralRecord(bull_score, bear_score, now) ==
    [timestamp |-> now,
     signal |-> "neutral",
     message |-> "No clear trading opportunity",
     confidence |-> FMax(bull_score, bear_score)]

DirectionalRecord(signal_type, price, technical_signals, ai, t, bull, bear, now) ==
    [timestamp |-> now,
     signal |-> signal_type,
     current_price |-> price,
     confidence |-> IF signal_type = "buy" THEN bull ELSE bear,
     entry |-> [price |-> price,
                type |-> "market",
                timing |-> _get_entry_timing(technical_signals, ai)],
     targets |-> [stop_loss |-> t.stop_loss,
                  take_profit |-> t.take_profit],
     risk_reward_ratio |-> risk_reward_ratio,
     technical_factors |->
         [trend |-> IF technical_signals.uptrend THEN "bullish" ELSE "bearish",
          rsi_condition |-> IF technical_signals.rsi_oversold THEN "oversold"
                            ELSE IF technical_signals.rsi_overbought
                            THEN "overbought" ELSE "neutral",
          volume_condition |-> IF technical_signals.high_volume THEN "high"
                               ELSE "normal"],
     ai_analysis |-> [sentiment |-> ai.sentiment,
                      confidence |-> ai.confidence_score]]

\* faulty variant: the neutral branch also computes and attaches targets
GenerateFinalSignalTargetsAlways(price, technical_signals, ai, bars, now) ==
    LET bull_score == bull_score_of(technical_signals, ai)
        bear_score == bear_score_of(technical_signals, ai)
        signal_type == signal_type_of(bull_score, bear_score)
        t == calculate_trade_targets(bars, price, trend_of(signal_type),
                                     risk_reward_ratio)
    IN  IF signal_type = "None"
        THEN [timestamp |-> now,
              signal |-> "neutral",
              message |-> "No clear trading opportunity",
              confidence |-> FMax(bull_score, bear_score),
              targets |-> [stop_loss |-> t.stop_loss, take_profit |-> t.take_profit]]
        ELSE DirectionalRecord(signal_type, price, technical_signals, ai, t,
                               bull_score, bear_score, now)

_generate_final_signal(price, technical_signals, ai, bars, now) ==
    LET bull_score == bull_score_of(technical_signals, ai)
        bear_score == bear_score_of(technical_signals, ai)
        signal_type == signal_type_of(bull_score, bear_score)
        t == calculate_trade_targets(bars, price, trend_of(signal_type),
                                     risk_reward_ratio)
    IN  IF signal_type = "None"
        THEN NeutralRecord(bull_score, bear_score, now)
        ELSE DirectionalRecord(signal_type, price, technical_signals, ai, t,
                               bull_score, bear_score, now)

-----------------------------------------------------------------------------
(* Input domains *)

BarFlat == [high |-> 2, low |-> 2, close |-> 2]

BarWide == [high |-> 3, low |-> 1, close |-> 2]

BarZeroClose == [high |-> 2, low |-> 0, close |-> 0]

BarAllZero == [high |-> 0, low |-> 0, close |-> 0]

Bars == {BarFlat, BarWide, BarZeroClose, BarAllZero}

\* a series of n bars, all equal to base except bar number pos
MkSeries(n, base, spike, pos) == [i \in 1..n |-> IF i = pos THEN spike ELSE base]

TargetSeries ==
    {MkSeries(n, base, spike, pos) :
        n \in 1..MaxBars, base \in Bars, spike \in Bars, pos \in 1..MaxBars}

Prices == {F(i) : i \in 1..MaxPrice}

Ratios == {Fin(1, 2), F(1), F(2), F(3)}

Trends == {"long", "short"}

FlagNames == {"uptrend", "downtrend", "golden_cross", "death_cross",
              "rsi_oversold", "rsi_overbought", "high_volume"}

AllFlags == [FlagNames -> BOOLEAN]

\* the first k words of a list
FirstWords(list, k) == {list[i] : i \in 1..k}

\* response texts: every count of high / medium / low markers, with every
\* outcome of the keyword vote
ConfidenceTexts ==
    {FirstWords(<<"confident", "strong", "definitely", "clear">>, h)
        \cup FirstWords(<<"likely", "probable", "possible">>, m)
        \cup FirstWords(<<"uncertain", "might", "maybe", "unclear">>, l) :
     h \in 0..4, m \in 0..3, l \in 0..4}

SentimentTexts == {{}, {"bullish"}, {"bearish"}, {"upward", "decline"},
                   {"growth", "higher", "lower"}, {"increase", "downward", "decrease"}}

Texts == {c \cup t : c \in ConfidenceTexts, t \in SentimentTexts}

Verdicts == {_parse_ai_response(t) : t \in Texts}

DefaultConfig == [timeframe |-> "1h", lookback_days |-> 30, update_interval |-> 300,
                  signal_threshold |-> Fin(7, 10), risk_reward_ratio |-> F(2)]

-----------------------------------------------------------------------------
(* Specification of the fusion function on its own: every combination of   *)
(* flags and every verdict the interpreter produces is an input.           *)

FuseSeries == {MkSeries(WindowSize, BarFlat, BarWide, WindowSize),
               MkSeries(WindowSize - 1, BarFlat, BarWide, 1)}

InitFuse ==
    /\ pc = "fuse_input"
    /\ config = DefaultConfig
    /\ cycle = 0
    /\ df \in {[bars |-> b] : b \in FuseSeries}
    /\ current_price \in Prices
    /\ market_stats = None
    /\ latest_signals \in AllFlags
    /\ ai_analysis \in Verdicts
    /\ signal = None
    /\ targets = None
    /\ steps = <<>>
    /\ files = <<>>
    /\ last_wait = 0

\* the call record left by calculate_trade_targets
TargetsCall(bars, price, trend, rr) ==
    [bars |-> bars, current_price |-> price, trend |-> trend,
     risk_reward_ratio |-> rr,
     result |-> calculate_trade_targets(bars, price, trend, rr)]

FuseStep ==
    /\ pc = "fuse_input"
    /\ LET sig == _generate_final_signal(current_price, latest_signals, ai_analysis,
                                         df.bars, cycle)
       IN  /\ signal' = sig
           /\ targets' = IF sig.signal = "neutral" THEN None
                         ELSE TargetsCall(df.bars, current_price,
                                          trend_of(sig.signal), risk_reward_ratio)
    /\ pc' = "fuse_done"
    /\ UNCHANGED <<config, cycle, df, current_price, market_stats, latest_signals,
                   ai_analysis, steps, files, last_wait>>

NextFuse == FuseStep

SpecFuse == InitFuse /\ [][NextFuse]_vars

-----------------------------------------------------------------------------
(* Specification of the target calculator on its own *)

InitTargets ==
    /\ pc = "targets_input"
    /\ config = DefaultConfig
    /\ cycle = 0
    /\ df \in {[bars |-> b] : b \in TargetSeries}
    /\ current_price = None
    /\ market_stats = None
    /\ latest_signals = None
    /\ ai_analysis = None
    /\ signal = None
    /\ targets = None
    /\ steps = <<>>
    /\ files = <<>>
    /\ last_wait = 0

TargetsStep ==
    /\ pc = "targets_input"
    /\ \E price \in Prices, trend \in Trends, rr \in Ratios :
          targets' = TargetsCall(df.bars, price, trend, rr)
    /\ pc' = "targets_done"
    /\ UNCHANGED <<config, cycle, df, current_price, market_stats, latest_signals,
                   ai_analysis, signal, steps, files, last_wait>>

NextTargets == TargetsStep

SpecTargets == InitTargets /\ [][NextTargets]_vars

-----------------------------------------------------------------------------
(* Specification of the entry-timing heuristic on its own *)

InitTiming ==
    /\ pc = "timing_input"
    /\ config = DefaultConfig
    /\ cycle = 0
    /\ df = None
    /\ current_price = None
    /\ market_stats = None
    /\ latest_signals \in AllFlags
    /\ ai_analysis \in Verdicts
    /\ signal = None
    /\ targets = None
    /\ steps = <<>>
    /\ files = <<>>
    /\ last_wait = 0

TimingStep ==
    /\ pc = "timing_input"
    /\ signal' = [timing |-> _get_entry_timing(latest_signals, ai_analysis)]
    /\ pc' = "timing_done"
    /\ UNCHANGED <<config, cycle, df, current_price, market_stats, latest_signals,
                   ai_analysis, targets, steps, files, last_wait>>

NextTiming == TimingStep

SpecTiming == InitTiming /\ [][NextTiming]_vars

-----------------------------------------------------------------------------
(* Specification of the confidence heuristic on its own: a response text   *)
(* is any set of the confidence words.                                     *)

MarkerTexts == SUBSET (high_confidence \cup medium_confidence \cup low_confidence)

InitConfidence ==
    /\ pc = "confidence_input"
    /\ config = DefaultConfig
    /\ cycle = 0
    /\ df = None
    /\ current_price = None
    /\ market_stats = None
    /\ latest_signals = None
    /\ ai_analysis \in {[raw_analysis |-> content] : content \in MarkerTexts}
    /\ signal = None
    /\ targets = None
    /\ steps = <<>>
    /\ files = <<>>
    /\ last_wait = 0

\* the 'raw_analysis' and 'confidence_score' entries of the insights
ConfidenceStep ==
    /\ pc = "confidence_input"
    /\ ai_analysis' = [raw_analysis |-> ai_analysis.raw_analysis,
                       confidence_score |-> _extract_confidence(ai_analysis.raw_analysis)]
    /\ pc' = "confidence_done"
    /\ UNCHANGED <<config, cycle, df, current_price, market_stats, latest_signals,
                   signal, targets, steps, files, last_wait>>

NextConfidence == ConfidenceStep

SpecConfidence == InitConfidence /\ [][NextConfidence]_vars

-----------------------------------------------------------------------------
(* The poll loop: TradingBot.run of main.py around                         *)
(* SignalGenerator.generate_trading_signal                                 *)

RsiWindow == 14

LongWindow == 50

TrendWindow == 200

RetrySeconds == 60

FlagsOf(S) == [f \in FlagNames |-> f \in S]

\* flag combinations drawn by the poll loop
RunFlagSets == {{}, {"high_volume"}, {"rsi_oversold"},
                {"uptrend", "golden_cross", "high_volume"},
                {"downtrend", "death_cross", "rsi_overbought"}}

\* generate_signals().iloc[-1]: an indicator is NaN until its window is
\* filled and every comparison with NaN is False; a < b and a > b exclude
\* each other
TechnicalSignalsOf(bars) ==
    {f \in {FlagsOf(S) : S \in RunFlagSets} :
        /\ (f.rsi_oversold \/ f.rsi_overbought) => Len(bars) >= RsiWindow
        /\ ~(f.rsi_oversold /\ f.rsi_overbought)
        /\ (f.golden_cross \/ f.death_cross) => Len(bars) >= LongWindow + 1
        /\ ~(f.golden_cross /\ f.death_cross)
        /\ (f.uptrend \/ f.downtrend) => Len(bars) >= TrendWindow
        /\ ~(f.uptrend /\ f.downtrend)}

\* series returned by get_historical_klines in the poll loop
RunSeries == {<<>>,
              MkSeries(WindowSize - 1, BarWide, BarWide, 1),
              MkSeries(TrendWindow, BarFlat, BarWide, TrendWindow),
              MkSeries(TrendWindow, BarWide, BarZeroClose, TrendWindow)}

\* ticker prices received in the poll loop
RunPrices == {F(1)}

\* response texts received in the poll loop; the empty text is also what an
\* error reply without 'choices' is parsed as
RunTexts == {{}, {"bullish", "confident"}, {"bearish", "strong", "likely"}}

\* config/trading_config.json: absent, malformed, or a JSON object
ConfigFiles == {[kind |-> "absent"], [kind |-> "malformed"],
                [kind |-> "json",
                 values |-> [update_interval |-> 30,
                             signal_threshold |-> Fin(1, 2),
                             risk_reward_ratio |-> F(3)]]}

_load_config(file) ==
    IF file.kind = "json"
    THEN [key \in DOMAIN DefaultConfig \cup DOMAIN file.values |->
             IF key \in DOMAIN file.values THEN file.values[key]
             ELSE DefaultConfig[key]]
    ELSE DefaultConfig

Init ==
    /\ pc = "loop"
    /\ config \in {_load_config(f) : f \in ConfigFiles}
    /\ cycle = 0
    /\ df = None
    /\ current_price = None
    /\ market_stats = None
    /\ latest_signals = None
    /\ ai_analysis = None
    /\ signal = None
    /\ targets = None
    /\ steps = <<>>
    /\ files = <<>>
    /\ last_wait = 0

Step(call, ok) == [call |-> call, ok |-> ok]

\* locals of generate_trading_signal; they are gone when it returns
DropLocals ==
    /\ df' = None
    /\ current_price' = None
    /\ market_stats' = None
    /\ latest_signals' = None
    /\ ai_analysis' = None

\* `except Exception` of generate_trading_signal: print and return None
ReturnNone ==
    /\ signal' = None
    /\ pc' = "print"
    /\ DropLocals

\* top of `while True`: run() calls generate_trading_signal
StartCycle ==
    /\ pc = "loop"
    /\ cycle < MaxCycles
    /\ cycle' = cycle + 1
    /\ pc' = "fetch_klines"
    /\ signal' = None
    /\ targets' = None
    /\ steps' = <<>>
    /\ UNCHANGED <<config, df, current_price, market_stats, latest_signals,
                   ai_analysis, files, last_wait>>

FetchKlines ==
    /\ pc = "fetch_klines"
    /\ \/ /\ steps' = Append(steps, Step("fetch", FALSE))
          /\ ReturnNone
       \/ /\ \E b \in RunSeries : df' = [bars |-> b]
          /\ steps' = Append(steps, Step("fetch", TRUE))
          /\ pc' = "fetch_market"
          /\ UNCHANGED <<current_price, market_stats, latest_signals, ai_analysis,
                         signal>>
    /\ UNCHANGED <<config, cycle, targets, files, last_wait>>

FetchMarket ==
    /\ pc = "fetch_market"
    /\ \E price \in RunPrices \cup {None}, stats \in {[volume |-> "ok"], None} :
          IF price = None \/ stats = None
          THEN /\ steps' = Append(steps, Step("market", FALSE))
               /\ ReturnNone
          ELSE /\ current_price' = price
               /\ market_stats' = stats
               /\ steps' = Append(steps, Step("market", TRUE))
               /\ pc' = "indicators"
               /\ UNCHANGED <<df, latest_signals, ai_analysis, signal>>
    /\ UNCHANGED <<config, cycle, targets, files, last_wait>>

\* TechnicalAnalysis(df), add_all_indicators, generate_signals, iloc[-1]
Indicators ==
    /\ pc = "indicators"
    /\ IF Len(df.bars) = 0
       THEN /\ steps' = Append(steps, Step("indicators", FALSE))
            /\ ReturnNone
       ELSE /\ latest_signals' \in TechnicalSignalsOf(df.bars)
            /\ steps' = Append(steps, Step("indicators", TRUE))
            /\ pc' = "sentiment"
            /\ UNCHANGED <<df, current_price, market_stats, ai_analysis, signal>>
    /\ UNCHANGED <<config, cycle, targets, files, last_wait>>

\* analyze_market_sentiment returns None when the query or the parse raises
Sentiment ==
    /\ pc = "sentiment"
    /\ \/ /\ steps' = Append(steps, Step("sentiment", FALSE))
          /\ ReturnNone
       \/ /\ \E text \in RunTexts : ai_analysis' = _parse_ai_response(text)
          /\ steps' = Append(steps, Step("sentiment", TRUE))
          /\ pc' = "fusion"
          /\ UNCHANGED <<df, current_price, market_stats, latest_signals, signal>>
    /\ UNCHANGED <<config, cycle, targets, files, last_wait>>

\* faulty variant: the targets are calculated before the decision is looked at
FusionTargetsFirst ==
    /\ pc = "fusion"
    /\ LET sig == _generate_final_signal(current_price, latest_signals, ai_analysis,
                                         df.bars, cycle)
       IN  /\ signal' = sig
           /\ targets' = TargetsCall(df.bars, current_price, trend_of(sig.signal),
                                     risk_reward_ratio)
           /\ steps' = steps \o <<Step("fusion", TRUE), Step("targets", TRUE)>>
    /\ pc' = "print"
    /\ DropLocals
    /\ UNCHANGED <<config, cycle, files, last_wait>>

Fusion ==
    /\ pc = "fusion"
    /\ LET sig == _generate_final_signal(current_price, latest_signals, ai_analysis,
                                         df.bars, cycle)
       IN  /\ signal' = sig
           /\ IF sig.signal = "neutral"
              THEN /\ targets' = None
                   /\ steps' = Append(steps, Step("fusion", TRUE))
              ELSE /\ targets' = TargetsCall(df.bars, current_price,
                                             trend_of(sig.signal), risk_reward_ratio)
                   /\ steps' = steps \o <<Step("fusion", TRUE), Step("targets", TRUE)>>
    /\ pc' = "print"
    /\ DropLocals
    /\ UNCHANGED <<config, cycle, files, last_wait>>

\* keys _print_signal reads from a record
PrintedKeys == {"timestamp", "signal", "confidence", "entry", "targets",
                "risk_reward_ratio", "technical_factors", "ai_analysis"}

\* faulty variant: an exception that reaches run() ends the loop
OnExceptionTerminates == "terminated"

\* where control goes when an exception reaches `except Exception` of run()
OnException == "retry_wait"

PrintSignal ==
    /\ pc = "print"
    /\ IF signal = None THEN pc' = "save"
       ELSE IF PrintedKeys \subseteq DOMAIN signal THEN pc' = "save"
       ELSE pc' = OnException
    /\ steps' = Append(steps, Step("print", pc' = "save"))
    /\ UNCHANGED <<config, cycle, df, current_price, market_stats, latest_signals,
                   ai_analysis, signal, targets, files, last_wait>>

\* faulty variant: the file is written whatever generate_trading_signal returned
SaveGuardAlways(sig) == TRUE

\* `if signal:` of _save_signal
SaveGuard(sig) == sig # None

Partial == [partial |-> TRUE]

WriteFile(name, content) ==
    [n \in DOMAIN files \cup {name} |-> IF n = name THEN content ELSE files[n]]

\* _save_signal up to open(filename, 'w'): the file exists, empty, once opened
SaveOpen ==
    /\ pc = "save"
    /\ IF SaveGuard(signal)
       THEN \/ /\ files' = WriteFile(cycle, Partial)
               /\ steps' = Append(steps, Step("save", TRUE))
               /\ pc' = "save_dump"
            \/ /\ steps' = Append(steps, Step("save", FALSE))
               /\ pc' = "wait"
               /\ UNCHANGED files
       ELSE /\ pc' = "wait"
            /\ UNCHANGED <<files, steps>>
    /\ UNCHANGED <<config, cycle, df, current_price, market_stats, latest_signals,
                   ai_analysis, signal, targets, last_wait>>

\* json.dump into the open file; an I/O error is printed and swallowed
SaveDump ==
    /\ pc = "save_dump"
    /\ \/ files' = WriteFile(cycle, signal)
       \/ UNCHANGED files
    /\ pc' = "wait"
    /\ UNCHANGED <<config, cycle, df, current_price, market_stats, latest_signals,
                   ai_analysis, signal, targets, steps, last_wait>>

\* time.sleep(self.config['update_interval'])
Wait ==
    /\ pc = "wait"
    /\ last_wait' = config.update_interval
    /\ pc' = "loop"
    /\ UNCHANGED <<config, cycle, df, current_price, market_stats, latest_signals,
                   ai_analysis, signal, targets, steps, files>>

\* `except Exception` of run(): print, time.sleep(60)
RetryWait ==
    /\ pc = "retry_wait"
    /\ last_wait' = RetrySeconds
    /\ pc' = "loop"
    /\ UNCHANGED <<config, cycle, df, current_price, market_stats, latest_signals,
                   ai_analysis, signal, targets, steps, files>>

\* KeyboardInterrupt, at any point of the loop
Interrupt ==
    /\ pc \notin {"stopped", "terminated"}
    /\ pc' = "stopped"
    /\ UNCHANGED <<config, cycle, df, current_price, market_stats, latest_signals,
                   ai_analysis, signal, targets, steps, files, last_wait>>

Progress ==
    \/ StartCycle
    \/ FetchKlines
    \/ FetchMarket
    \/ Indicators
    \/ Sentiment
    \/ Fusion
    \/ PrintSignal
    \/ SaveOpen
    \/ SaveDump
    \/ Wait
    \/ RetryWait

Next == Progress \/ Interrupt

Spec == Init /\ [][Next]_vars

\* every call and every sleep of the loop returns
LiveSpec == Spec /\ WF_vars(Progress)

-----------------------------------------------------------------------------
(* Properties of the fusion function (SpecFuse) *)

Directional(s) == s.signal \in {"buy", "sell"}

\* C1: a buy or sell record carries a targets entry with the stop_loss and
\* take_profit returned by calculate_trade_targets, and a neutral record
\* carries no targets entry, for every combination of flags and verdict.
C1_TargetsIffDirectional ==
    pc = "fuse_done" =>
        /\ signal.signal \in {"buy", "sell", "neutral"}
        /\ Directional(signal) =>
              /\ "targets" \in DOMAIN signal
              /\ DOMAIN signal.targets = {"stop_loss", "take_profit"}
              /\ targets # None
              /\ signal.targets.stop_loss = targets.result.stop_loss
              /\ signal.targets.take_profit = targets.result.take_profit
        /\ signal.signal = "neutral" => "targets" \notin DOMAIN signal

C1_Witness ==
    /\ pc = "fuse_done"
    /\ signal.signal = "sell"
    /\ "targets" \in DOMAIN signal
    /\ IsFinite(signal.targets.stop_loss)

\* C2: the decision is buy exactly when bull_score > bear_score and
\* bull_score > threshold, sell exactly when bear_score > bull_score and
\* bear_score > threshold, neutral otherwise; equal scores and a leading
\* score equal to the threshold give neutral.
C2_DecisionRule ==
    pc = "fuse_done" =>
        LET bull == bull_score_of(latest_signals, ai_analysis)
            bear == bear_score_of(latest_signals, ai_analysis)
            thr == min_confidence_threshold
            buy == FGt(bull, bear) /\ FGt(bull, thr)
            sell == FGt(bear, bull) /\ FGt(bear, thr)
        IN  /\ (signal.signal = "buy") <=> buy
            /\ (signal.signal = "sell") <=> sell
            /\ (signal.signal = "neutral") <=> (~buy /\ ~sell)
            /\ ~(buy /\ sell)
            /\ bull = bear => signal.signal = "neutral"
            /\ FMax(bull, bear) = thr => signal.signal = "neutral"

C2_Witness ==
    /\ pc = "fuse_done"
    /\ bull_score_of(latest_signals, ai_analysis) = min_confidence_threshold
    /\ FLt(bear_score_of(latest_signals, ai_analysis), min_confidence_threshold)
    /\ signal.signal = "neutral"

Weight(flag, w) == IF flag THEN w ELSE F(0)

ExpectedBull(ts, ai) ==
    FAdd(FAdd(FAdd(Weight(ts.uptrend, Fin(25, 100)),
                   Weight(ts.golden_cross, Fin(15, 100))),
              Weight(ts.rsi_oversold, Fin(10, 100))),
         Weight(ai.sentiment = "bullish", FMul(Fin(1, 2), ai.confidence_score)))

ExpectedBear(ts, ai) ==
    FAdd(FAdd(FAdd(Weight(ts.downtrend, Fin(25, 100)),
                   Weight(ts.death_cross, Fin(15, 100))),
              Weight(ts.rsi_overbought, Fin(10, 100))),
         Weight(ai.sentiment = "bearish", FMul(Fin(1, 2), ai.confidence_score)))

OnlyFlags(ts, S) == \A f \in FlagNames \ {"high_volume"} : ts[f] <=> f \in S

\* C3: bull_score and bear_score are the weighted sums 0.25/0.15/0.10 of
\* their three flags plus 0.5*confidence for a matching sentiment (nothing for
\* a neutral one); the record's confidence is the winner's score for buy/sell
\* and the larger score for neutral.  Uptrend + golden cross + bullish at 0.9
\* gives buy at 0.85; no flags + neutral sentiment gives neutral at 0.
C3_Scores ==
    pc = "fuse_done" =>
        LET bull == ExpectedBull(latest_signals, ai_analysis)
            bear == ExpectedBear(latest_signals, ai_analysis)
        IN  /\ bull_score_of(latest_signals, ai_analysis) = bull
            /\ bear_score_of(latest_signals, ai_analysis) = bear
            /\ signal.signal = "buy" => signal.confidence = bull
            /\ signal.signal = "sell" => signal.confidence = bear
            /\ signal.signal = "neutral" =>
                  signal.confidence = (IF FLt(bull, bear) THEN bear ELSE bull)
            /\ (/\ OnlyFlags(latest_signals, {"uptrend", "golden_cross"})
                /\ ai_analysis.sentiment = "bullish"
                /\ ai_analysis.confidence_score = Fin(9, 10))
               => signal.signal = "buy" /\ signal.confidence = Fin(85, 100)
            /\ (OnlyFlags(latest_signals, {}) /\ ai_analysis.sentiment = "neutral")
               => signal.signal = "neutral" /\ signal.confidence = F(0)

C3_Witness ==
    /\ pc = "fuse_done"
    /\ OnlyFlags(latest_signals, {"uptrend", "golden_cross"})
    /\ ai_analysis = [sentiment |-> "bullish", confidence_score |-> Fin(9, 10)]
    /\ signal.signal = "buy"
    /\ signal.confidence = Fin(85, 100)

InUnit(x) == FLe(F(0), x) /\ FLe(x, F(1))

\* C4: for every combination of flags and every verdict the interpreter can
\* produce, bull_score, bear_score and the record's confidence lie in [0, 1].
C4_ScoresInUnitInterval ==
    /\ latest_signals # None /\ ai_analysis # None =>
          /\ InUnit(bull_score_of(latest_signals, ai_analysis))
          /\ InUnit(bear_score_of(latest_signals, ai_analysis))
    /\ pc = "fuse_done" => InUnit(signal.confidence)

C4_Witness ==
    /\ pc = "fuse_done"
    /\ bull_score_of(latest_signals, ai_analysis) = F(1)
    /\ signal.signal = "buy"
    /\ signal.confidence = F(1)

-----------------------------------------------------------------------------
(* Properties of the target calculator (SpecTargets) *)

WellFormedBars(bars) ==
    \A i \in 1..Len(bars) : bars[i].high >= bars[i].low /\ bars[i].close > 0

\* C5 (as claimed): for price > 0, ratio > 0 and bars with high >= low and
\* close > 0, stop_loss < price < take_profit for long and
\* take_profit < price < stop_loss for short.
C5_Directionality ==
    (/\ pc = "targets_done"
     /\ FGt(targets.current_price, F(0))
     /\ FGt(targets.risk_reward_ratio, F(0))
     /\ WellFormedBars(targets.bars))
    => IF targets.trend = "long"
       THEN /\ FLt(targets.result.stop_loss, targets.current_price)
            /\ FLt(targets.current_price, targets.result.take_profit)
       ELSE /\ FLt(targets.result.take_profit, targets.current_price)
            /\ FLt(targets.current_price, targets.result.stop_loss)

\* C6 (as claimed): for any ratio > 0, any price and either trend,
\* reward_distance == risk_distance * risk_reward_ratio.
C6_RewardIsRiskTimesRatio ==
    (pc = "targets_done" /\ FGt(targets.risk_reward_ratio, F(0)))
    => FEq(targets.result.reward_distance,
           FMul(targets.result.risk_distance, targets.risk_reward_ratio))

-----------------------------------------------------------------------------
(* Properties of the entry-timing heuristic (SpecTiming) *)

Caveats == <<[flag |-> "rsi_oversold", on |-> TRUE, text |-> "wait for RSI recovery"],
             [flag |-> "rsi_overbought", on |-> TRUE, text |-> "wait for RSI pullback"],
             [flag |-> "high_volume", on |-> FALSE,
              text |-> "wait for volume confirmation"]>>

RECURSIVE TriggeredFrom(_, _)
TriggeredFrom(ts, i) ==
    IF i > Len(Caveats) THEN <<>>
    ELSE (IF ts[Caveats[i].flag] = Caveats[i].on THEN <<Caveats[i].text>> ELSE <<>>)
         \o TriggeredFrom(ts, i + 1)

\* C7: the timing is 'immediate' iff (high_volume and confidence > 0.8) or no
\* caveat condition holds; otherwise it is 'delayed: ' followed by exactly the
\* triggered caveats in the order oversold, overbought, volume.
C7_EntryTiming ==
    pc = "timing_done" =>
        LET ts == latest_signals
            fast == ts.high_volume /\ FGt(ai_analysis.confidence_score, Fin(8, 10))
            nocaveat == ~ts.rsi_oversold /\ ~ts.rsi_overbought /\ ts.high_volume
        IN  /\ (signal.timing = <<"immediate">>) <=> (fast \/ nocaveat)
            /\ ~(fast \/ nocaveat) =>
                  signal.timing = <<"delayed: ">> \o TriggeredFrom(ts, 1)

C7_Witness ==
    /\ pc = "timing_done"
    /\ latest_signals.rsi_oversold
    /\ latest_signals.rsi_overbought
    /\ ~latest_signals.high_volume
    /\ signal.timing = <<"delayed: ", "wait for RSI recovery", "wait for RSI pullback",
                         "wait for volume confirmation">>

-----------------------------------------------------------------------------
(* Properties of the poll loop (Spec, LiveSpec) *)

Called(call) == \E i \in 1..Len(steps) : steps[i].call = call

\* an upstream input of the current cycle was unavailable
Unavailable ==
    \E i \in 1..Len(steps) :
        steps[i].call \in {"fetch", "market", "indicators", "sentiment"} /\ ~steps[i].ok

\* C8: when an upstream input of a cycle is unavailable, fusion is not
\* executed in that cycle, generate_trading_signal returns None, no signal
\* file is written, and the loop goes on to the normal wait and the next cycle.
C8_UnavailableSkipsCycle ==
    Unavailable =>
        /\ ~Called("fusion") /\ ~Called("targets") /\ ~Called("save")
        /\ signal = None
        /\ cycle \notin DOMAIN files
        /\ pc \in {"print", "save", "wait", "loop", "stopped"}
        /\ (pc = "loop" /\ cycle < MaxCycles) => ENABLED StartCycle

C8_Witness ==
    /\ Unavailable
    /\ pc = "loop"
    /\ cycle < MaxCycles
    /\ last_wait = config.update_interval
    /\ files = <<>>

\* C9 (as claimed): every cycle in which fusion produced a record, buy, sell
\* or neutral, has written exactly one file holding that record when the wait
\* for the next cycle begins.
C9_FusedCycleWritesFile ==
    (pc \in {"wait", "retry_wait"} /\ Called("fusion"))
    => (cycle \in DOMAIN files /\ files[cycle] = signal)

\* C10: unless the operator interrupts, every cycle is eventually followed by
\* the start of another one, whatever its outcome.
C10_LoopContinues ==
    \A c \in 1..(MaxCycles - 1) : (cycle = c) ~> (cycle = c + 1 \/ pc = "stopped")

C10_Witness ==
    /\ cycle > 1
    /\ pc = "fetch_klines"
    /\ last_wait = RetrySeconds

\* C11 (as claimed): the threshold the scores are compared against is
\* signal_threshold of the loaded configuration, and the ratio handed to
\* calculate_trade_targets is its risk_reward_ratio: a record is directional
\* exactly when its confidence exceeds config.signal_threshold, and the
\* targets call of a directional cycle received config.risk_reward_ratio.
C11_ConfigValuesUsed ==
    (Called("fusion") /\ signal # None) =>
        IF signal.signal = "neutral"
        THEN FLe(signal.confidence, config.signal_threshold)
        ELSE /\ FGt(signal.confidence, config.signal_threshold)
             /\ targets.risk_reward_ratio = config.risk_reward_ratio

LastClose(bars) == bars[Len(bars)].close

\* C12 (as claimed): when the close of the latest bar is zero, no signal
\* record is produced that carries targets built from the division by zero:
\* the stop_loss and take_profit of every record of such a cycle are finite
\* numbers (the claim asks for more, a domain error and a skipped cycle).
C12_ZeroCloseNoTargets ==
    (Called("targets") /\ LastClose(targets.bars) = 0 /\ signal # None)
    => /\ IsFinite(signal.targets.stop_loss)
       /\ IsFinite(signal.targets.take_profit)

\* the volatility proxy over the bars that are available
AvailableRange(bars) ==
    FDiv(FSub(RollingMaxLast(bars, Len(bars)), RollingMinLast(bars, Len(bars))),
         F(LastClose(bars)))

\* C13 (as claimed): for a series of 1 to 13 bars with a positive latest
\* close, calculate_trade_targets returns finite stop_loss and take_profit at
\* the distance price * (max high - min low) / last close * 1.5 computed over
\* all the bars there are.
C13_FewBarsDegrade ==
    (/\ pc = "targets_done"
     /\ Len(targets.bars) < WindowSize
     /\ LastClose(targets.bars) > 0)
    => /\ IsFinite(targets.result.stop_loss)
       /\ IsFinite(targets.result.take_profit)
       /\ FEq(targets.result.risk_distance,
              FMul(FMul(targets.current_price, AvailableRange(targets.bars)),
                   Fin(3, 2)))

\* a call of the current cycle failed: an input was unavailable or an
\* exception reached run()
CycleFailed == \E i \in 1..Len(steps) : ~steps[i].ok

\* C14 (as claimed): the sleep that follows a failed cycle is never shorter
\* than update_interval, the sleep that follows a successful one (the claim
\* asks for a strictly longer one when failures repeat).
C14_FailedCycleWaitsLonger ==
    (pc = "loop" /\ cycle > 0 /\ CycleFailed) => last_wait >= config.update_interval

-----------------------------------------------------------------------------
(* Properties of the confidence heuristic (SpecConfidence) *)

\* number of the listed markers that are words of the text
MarkerCount(words, content) == Cardinality(words \cap content)

\* C15 (as claimed): the confidence of a text is 0.5 when it holds no high,
\* medium or low confidence marker, and otherwise the average of the weights
\* 1.0 / 0.6 / 0.2 over the markers it holds; it lies in [0, 1].
C15_WeightedAverage ==
    pc = "confidence_done" =>
        LET content == ai_analysis.raw_analysis
            high == MarkerCount(high_confidence, content)
            medium == MarkerCount(medium_confidence, content)
            low == MarkerCount(low_confidence, content)
            weighted == FAdd(FAdd(F(high), FMul(Fin(6, 10), F(medium))),
                             FMul(Fin(2, 10), F(low)))
        IN  /\ InUnit(ai_analysis.confidence_score)
            /\ IF high + medium + low = 0
               THEN ai_analysis.confidence_score = Fin(1, 2)
               ELSE FEq(FMul(ai_analysis.confidence_score, F(high + medium + low)),
                        weighted)

-----------------------------------------------------------------------------
(* Further properties of the poll loop (Spec) *)

\* C16 (as claimed): once the process has been stopped, every signal file
\* that exists under its final name holds a complete record (the claim asks
\* for this at every instant).
C16_NoPartialFile ==
    pc = "stopped" => \A name \in DOMAIN files : files[name] # Partial

CycleOrder == <<"fetch", "market", "indicators", "sentiment", "fusion", "targets",
                "print", "save">>

Rank(call) == CHOOSE r \in 1..Len(CycleOrder) : CycleOrder[r] = call

\* C17: the calls of one cycle occur in the order fetch, indicators,
\* sentiment, fusion, target calculation, persist; a new cycle starts with
\* nothing of the previous one pending and files belong to cycles that have
\* started; sentiment is never called after a failed fetch, targets are never
\* calculated for a neutral decision, and a file is written only after the
\* fusion of its cycle has returned.
C17_StepOrder ==
    /\ \A i, j \in 1..Len(steps) :
          i < j => Rank(steps[i].call) < Rank(steps[j].call)
    /\ pc = "fetch_klines" => (steps = <<>> /\ signal = None /\ targets = None)
    /\ DOMAIN files \subseteq 1..cycle
    /\ (\E i \in 1..Len(steps) : steps[i].call \in {"fetch", "market"} /\ ~steps[i].ok)
       => ~Called("sentiment")
    /\ (signal # None /\ signal.signal = "neutral")
       => (~Called("targets") /\ targets = None)
    /\ (Called("save") \/ pc = "save_dump") => Called("fusion")
    /\ cycle \in DOMAIN files => Called("fusion")

C17_Witness ==
    /\ cycle > 1
    /\ pc = "wait"
    /\ [i \in 1..Len(steps) |-> steps[i].call] = CycleOrder
    /\ cycle \in DOMAIN files
    /\ files[cycle] = signal

-----------------------------------------------------------------------------
(* A further property of the fusion function (SpecFuse) *)

\* C18: technical conditions alone never give a directional record: every
\* buy record has sentiment bullish and every sell record sentiment bearish,
\* with a sentiment confidence above 0.4, and the confidence of every
\* directional record is above 0.7.
C18_SentimentNeeded ==
    (pc = "fuse_done" /\ Directional(signal)) =>
        /\ signal.signal = "buy" => ai_analysis.sentiment = "bullish"
        /\ signal.signal = "sell" => ai_analysis.sentiment = "bearish"
        /\ signal.ai_analysis.sentiment = ai_analysis.sentiment
        /\ FGt(ai_analysis.confidence_score, Fin(4, 10))
        /\ FGt(signal.confidence, Fin(7, 10))

C18_Witness ==
    /\ pc = "fuse_done"
    /\ signal.signal = "sell"
    /\ latest_signals.downtrend /\ latest_signals.death_cross
    /\ latest_signals.rsi_overbought
    /\ ai_analysis.sentiment = "bearish"
    /\ FLt(ai_analysis.confidence_score, Fin(1, 2))

=============================================================================
